---- MODULE Spec2Model ----
(***************************************************************************)
(* Model of patrole_tempest_plugin/rbac_rule_validation.py: the `action`   *)
(* decorator's wrapper (credential resolution, verdict computation, error  *)
(* code classification, guarded call, except/else/finally reconciliation)  *)
(* and its helpers _get_exception_type and _format_extra_target_data.      *)
(***************************************************************************)
EXTENDS Integers, Sequences, FiniteSets, TLC

(* Test cases (one wrapper invocation at a time each, each with its own    *)
(* caller_ref / subject).                                                  *)
Procs == {1, 2}

(* Number of successive wrapper calls a test case makes.                   *)
MaxCalls == 2

(* Values of CONF.rbac.rbac_test_role.                                     *)
Roles == {"admin", "member"}

(* Values passed as expected_error_code: the two supported ones and one    *)
(* unsupported one.                                                        *)
ErrorCodes == {403, 404, 500}

supported_error_codes == {403, 404}

(* What the call of func can do: return, or raise one of the exception     *)
(* kinds the except clauses tell apart.  "OtherException" is an Exception   *)
(* that is none of the named ones; "BaseException" is one that `except     *)
(* Exception` does not catch (KeyboardInterrupt, SystemExit).              *)
Signals == {"Success", "Forbidden", "NotFound", "RbacActionFailed",
            "RbacInvalidService", "OtherException", "BaseException"}

(* ---------------------------------------------------------------------- *)
(* Attribute strings and the object graph hanging off the test object.     *)
(* A string is a sequence of one-character strings.                        *)
(* ---------------------------------------------------------------------- *)

(* The test object and what getattr reaches from it:                       *)
(*   test_obj.a = A,  A.a = V,  A.b = B; nothing else exists.              *)
Attributes ==
  [o \in {"test_obj", "A", "B", "V"} |->
     CASE o = "test_obj" -> (<<"a">> :> "A")
       [] o = "A"        -> (<<"a">> :> "V") @@ (<<"b">> :> "B")
       [] OTHER          -> [n \in {} |-> "V"]]

(* The attr_string values a decorator is written with.                     *)
PathStrings == { <<"a">>, <<"b">>, <<"a", ".", "a">>, <<"a", ".", "b">>,
                 <<"a", ".", "b", ".", "a">> }

(* Keys of extra_target_data.                                              *)
Keys == {"k1", "k2"}

(* The extra_target_data dictionaries: every mapping of some keys to       *)
(* attribute strings.                                                      *)
ExtraTargetDataChoices ==
  UNION { [ks -> PathStrings] : ks \in SUBSET Keys }

EmptyDict == [k \in {} |-> "V"]

(* str.split('.'): the segments between the dots, empty ones included.     *)
RECURSIVE SplitFrom(_, _, _)
SplitFrom(s, cur, acc) ==
  IF s = <<>> THEN Append(acc, cur)
  ELSE IF Head(s) = "." THEN SplitFrom(Tail(s), <<>>, Append(acc, cur))
  ELSE SplitFrom(Tail(s), Append(cur, Head(s)), acc)

Split(attr_string) == SplitFrom(attr_string, <<>>, <<>>)

(* getattr(attr_value, attr): the attribute, or AttributeError.            *)
GetAttr(attr_value, attr) ==
  IF attr_value = "AttributeError" THEN "AttributeError"
  ELSE IF attr \in DOMAIN Attributes[attr_value]
       THEN Attributes[attr_value][attr]
       ELSE "AttributeError"

(* The inner loop `for attr in attrs: attr_value = getattr(...)`.          *)
RECURSIVE GetAttrs(_, _)
GetAttrs(attr_value, attrs) ==
  IF attrs = <<>> THEN attr_value
  ELSE GetAttrs(GetAttr(attr_value, Head(attrs)), Tail(attrs))

(* The outer loop over extra_target_data.items(), in the order `items`     *)
(* lists the keys.  attr_value is carried from one entry to the next, as   *)
(* in the source, where it is assigned once before the loop.               *)
RECURSIVE FormatLoop(_, _, _, _)
FormatLoop(attr_value, extra, items, formatted_target_data) ==
  IF items = <<>> THEN [ok |-> TRUE, data |-> formatted_target_data]
  ELSE LET user_attribute == Head(items)
           value == GetAttrs(attr_value, Split(extra[user_attribute]))
       IN  IF value = "AttributeError"
           THEN [ok |-> FALSE, data |-> EmptyDict]
           ELSE FormatLoop(value, extra, Tail(items),
                           formatted_target_data @@ (user_attribute :> value))

(* _format_extra_target_data(test_obj, extra_target_data), iterating the   *)
(* dictionary in the order `items`.                                        *)
_format_extra_target_data(test_obj, extra, items) ==
  FormatLoop(test_obj, extra, items, EmptyDict)

(* The orders in which a dictionary's items() can come.                    *)
ItemOrders(extra) ==
  { s \in [1..Cardinality(DOMAIN extra) -> DOMAIN extra] :
      \A i, j \in DOMAIN s : i # j => s[i] # s[j] }

(* _get_exception_type with the two arms' exceptions exchanged.            *)
_get_exception_type_KindsSwapped(code) ==
  IF code = 403 THEN
    [raises |-> FALSE, expected_exception |-> "NotFound", irregular_msg |-> FALSE]
  ELSE IF code = 404 THEN
    [raises |-> FALSE, expected_exception |-> "Forbidden", irregular_msg |-> TRUE]
  ELSE
    [raises |-> TRUE, expected_exception |-> "None", irregular_msg |-> FALSE]

(* _get_exception_type falling back to Forbidden for a code it does not    *)
(* know instead of raising.                                                *)
_get_exception_type_DefaultForbidden(code) ==
  IF code = 404 THEN
    [raises |-> FALSE, expected_exception |-> "NotFound", irregular_msg |-> TRUE]
  ELSE
    [raises |-> FALSE, expected_exception |-> "Forbidden", irregular_msg |-> FALSE]

(* _get_exception_type(expected_error_code).                               *)
_get_exception_type(code) ==
  IF code = 403 THEN
    [raises |-> FALSE, expected_exception |-> "Forbidden", irregular_msg |-> FALSE]
  ELSE IF code = 404 THEN
    [raises |-> FALSE, expected_exception |-> "NotFound", irregular_msg |-> TRUE]
  ELSE
    [raises |-> TRUE, expected_exception |-> "None", irregular_msg |-> FALSE]

(* Reconcile with the verdict ignored in the expected-error clause: a       *)
(* denial always counts as success.                                        *)
Reconcile_DenialAlwaysPasses(sig, exp, irregular, is_allowed) ==
  IF sig = "RbacInvalidService" THEN
    [raised |-> "NotFound", result |-> "InvalidService", warned |-> FALSE]
  ELSE IF sig = exp \/ sig = "RbacActionFailed" THEN
    [raised |-> "None", result |-> "Pass", warned |-> irregular]
  ELSE IF sig \in {"Forbidden", "NotFound", "OtherException"} THEN
    [raised |-> sig, result |-> "UnexpectedError", warned |-> FALSE]
  ELSE IF sig = "Success" THEN
    IF ~is_allowed
    THEN [raised |-> "RbacOverPermission",
          result |-> "OverPermissionButShouldBeForbidden", warned |-> FALSE]
    ELSE [raised |-> "None", result |-> "Pass", warned |-> FALSE]
  ELSE
    [raised |-> sig, result |-> "UnexpectedError", warned |-> FALSE]

(* Reconcile without the else clause: a call that returns always passes.   *)
Reconcile_NoElseClause(sig, exp, irregular, is_allowed) ==
  IF sig = "RbacInvalidService" THEN
    [raised |-> "NotFound", result |-> "InvalidService", warned |-> FALSE]
  ELSE IF sig = exp \/ sig = "RbacActionFailed" THEN
    IF is_allowed
    THEN [raised |-> "Forbidden", result |-> "ForbiddenButShouldBeAllowed",
          warned |-> irregular]
    ELSE [raised |-> "None", result |-> "Pass", warned |-> irregular]
  ELSE IF sig \in {"Forbidden", "NotFound", "OtherException"} THEN
    [raised |-> sig, result |-> "UnexpectedError", warned |-> FALSE]
  ELSE IF sig = "Success" THEN
    [raised |-> "None", result |-> "Pass", warned |-> FALSE]
  ELSE
    [raised |-> sig, result |-> "UnexpectedError", warned |-> FALSE]

(* Reconcile with the expected-error clause catching every Exception: any  *)
(* error of func counts as the denial.                                     *)
Reconcile_AnyErrorIsDenial(sig, exp, irregular, is_allowed) ==
  IF sig = "RbacInvalidService" THEN
    [raised |-> "NotFound", result |-> "InvalidService", warned |-> FALSE]
  ELSE IF sig \in {"Forbidden", "NotFound", "OtherException",
                   "RbacActionFailed"} THEN
    IF is_allowed
    THEN [raised |-> "Forbidden", result |-> "ForbiddenButShouldBeAllowed",
          warned |-> irregular]
    ELSE [raised |-> "None", result |-> "Pass", warned |-> irregular]
  ELSE IF sig = "Success" THEN
    IF ~is_allowed
    THEN [raised |-> "RbacOverPermission",
          result |-> "OverPermissionButShouldBeForbidden", warned |-> FALSE]
    ELSE [raised |-> "None", result |-> "Pass", warned |-> FALSE]
  ELSE
    [raised |-> sig, result |-> "UnexpectedError", warned |-> FALSE]

(* Reconcile with `except Exception` as the first clause.                  *)
Reconcile_CatchAllFirst(sig, exp, irregular, is_allowed) ==
  IF sig \in {"RbacInvalidService", "RbacActionFailed", "Forbidden",
              "NotFound", "OtherException"} THEN
    [raised |-> sig, result |-> "UnexpectedError", warned |-> FALSE]
  ELSE IF sig = "Success" THEN
    IF ~is_allowed
    THEN [raised |-> "RbacOverPermission",
          result |-> "OverPermissionButShouldBeForbidden", warned |-> FALSE]
    ELSE [raised |-> "None", result |-> "Pass", warned |-> FALSE]
  ELSE
    [raised |-> sig, result |-> "UnexpectedError", warned |-> FALSE]

(* Reconcile with the else clause raising Forbidden, as the                *)
(* expected-error clause does, instead of RbacOverPermission.              *)
Reconcile_OverPermissionAsForbidden(sig, exp, irregular, is_allowed) ==
  IF sig = "RbacInvalidService" THEN
    [raised |-> "NotFound", result |-> "InvalidService", warned |-> FALSE]
  ELSE IF sig = exp \/ sig = "RbacActionFailed" THEN
    IF is_allowed
    THEN [raised |-> "Forbidden", result |-> "ForbiddenButShouldBeAllowed",
          warned |-> irregular]
    ELSE [raised |-> "None", result |-> "Pass", warned |-> irregular]
  ELSE IF sig \in {"Forbidden", "NotFound", "OtherException"} THEN
    [raised |-> sig, result |-> "UnexpectedError", warned |-> FALSE]
  ELSE IF sig = "Success" THEN
    IF ~is_allowed
    THEN [raised |-> "Forbidden",
          result |-> "OverPermissionButShouldBeForbidden", warned |-> FALSE]
    ELSE [raised |-> "None", result |-> "Pass", warned |-> FALSE]
  ELSE
    [raised |-> sig, result |-> "UnexpectedError", warned |-> FALSE]

(* Reconcile with `except expected_exception` alone: RbacActionFailed      *)
(* falls to `except Exception`.                                            *)
Reconcile_ActionFailedUnexpected(sig, exp, irregular, is_allowed) ==
  IF sig = "RbacInvalidService" THEN
    [raised |-> "NotFound", result |-> "InvalidService", warned |-> FALSE]
  ELSE IF sig = exp THEN
    IF is_allowed
    THEN [raised |-> "Forbidden", result |-> "ForbiddenButShouldBeAllowed",
          warned |-> irregular]
    ELSE [raised |-> "None", result |-> "Pass", warned |-> irregular]
  ELSE IF sig \in {"Forbidden", "NotFound", "OtherException",
                   "RbacActionFailed"} THEN
    [raised |-> sig, result |-> "UnexpectedError", warned |-> FALSE]
  ELSE IF sig = "Success" THEN
    IF ~is_allowed
    THEN [raised |-> "RbacOverPermission",
          result |-> "OverPermissionButShouldBeForbidden", warned |-> FALSE]
    ELSE [raised |-> "None", result |-> "Pass", warned |-> FALSE]
  ELSE
    [raised |-> sig, result |-> "UnexpectedError", warned |-> FALSE]

(* Reconcile with the irregular notice logged only when the denial is      *)
(* reported as a failure.                                                  *)
Reconcile_WarnOnlyWhenAllowed(sig, exp, irregular, is_allowed) ==
  IF sig = "RbacInvalidService" THEN
    [raised |-> "NotFound", result |-> "InvalidService", warned |-> FALSE]
  ELSE IF sig = exp \/ sig = "RbacActionFailed" THEN
    IF is_allowed
    THEN [raised |-> "Forbidden", result |-> "ForbiddenButShouldBeAllowed",
          warned |-> irregular]
    ELSE [raised |-> "None", result |-> "Pass", warned |-> FALSE]
  ELSE IF sig \in {"Forbidden", "NotFound", "OtherException"} THEN
    [raised |-> sig, result |-> "UnexpectedError", warned |-> FALSE]
  ELSE IF sig = "Success" THEN
    IF ~is_allowed
    THEN [raised |-> "RbacOverPermission",
          result |-> "OverPermissionButShouldBeForbidden", warned |-> FALSE]
    ELSE [raised |-> "None", result |-> "Pass", warned |-> FALSE]
  ELSE
    [raised |-> sig, result |-> "UnexpectedError", warned |-> FALSE]

(* The try statement around the call of func: which except clause, or the  *)
(* else clause, handles what func did, what the wrapper raises to its      *)
(* caller ("None": it returns), which result that is, and whether the      *)
(* irregular-code warning is logged.  The clauses are tried in the         *)
(* source's order; a BaseException matches none of them and propagates.    *)
Reconcile(sig, exp, irregular, is_allowed) ==
  IF sig = "RbacInvalidService" THEN
    [raised |-> "NotFound", result |-> "InvalidService", warned |-> FALSE]
  ELSE IF sig = exp \/ sig = "RbacActionFailed" THEN
    IF is_allowed
    THEN [raised |-> "Forbidden", result |-> "ForbiddenButShouldBeAllowed",
          warned |-> irregular]
    ELSE [raised |-> "None", result |-> "Pass", warned |-> irregular]
  ELSE IF sig \in {"Forbidden", "NotFound", "OtherException"} THEN
    [raised |-> sig, result |-> "UnexpectedError", warned |-> FALSE]
  ELSE IF sig = "Success" THEN
    IF ~is_allowed
    THEN [raised |-> "RbacOverPermission",
          result |-> "OverPermissionButShouldBeForbidden", warned |-> FALSE]
    ELSE [raised |-> "None", result |-> "Pass", warned |-> FALSE]
  ELSE
    [raised |-> sig, result |-> "UnexpectedError", warned |-> FALSE]

(* ---------------------------------------------------------------------- *)
(* State                                                                   *)
(* ---------------------------------------------------------------------- *)
VARIABLES
  rbac_test_role,        \* CONF.rbac.rbac_test_role
  pc,                    \* where each test case's wrapper call stands
  calls,                 \* wrapper calls each test case has made
  admin_only,            \* decorator argument
  expected_error_code,   \* decorator argument
  extra_target_data,     \* decorator argument
  has_credentials,       \* args[0] is a test case with project_id, user_id
  formatted_target_data, \* what _format_extra_target_data returned
  permission,            \* what authority.get_permission returned
  allowed,               \* the verdict
  expected_exception,    \* from _get_exception_type
  irregular_msg,         \* from _get_exception_type: a notice is present
  signal,                \* what func did
  raised,                \* what the wrapper raised to its caller
  result,                \* the branch of the try statement that was taken
  warned,                \* LOG.warning(irregular_msg) was called
  role_state,            \* each test case's role: "default" or "rbac"
  log                    \* the steps of the current call, in order

vars == <<rbac_test_role, pc, calls, admin_only, expected_error_code,
          extra_target_data, has_credentials, formatted_target_data,
          permission, allowed, expected_exception, irregular_msg, signal,
          raised, result, warned, role_state, log>>

NotFormatted == [ok |-> FALSE, data |-> EmptyDict]

Init ==
  /\ rbac_test_role \in Roles
  /\ pc = [p \in Procs |-> "idle"]
  /\ calls = [p \in Procs |-> 0]
  /\ admin_only = [p \in Procs |-> FALSE]
  /\ expected_error_code = [p \in Procs |-> 403]
  /\ extra_target_data = [p \in Procs |-> EmptyDict]
  /\ has_credentials = [p \in Procs |-> TRUE]
  /\ formatted_target_data = [p \in Procs |-> NotFormatted]
  /\ permission = [p \in Procs |-> "None"]
  /\ allowed = [p \in Procs |-> FALSE]
  /\ expected_exception = [p \in Procs |-> "None"]
  /\ irregular_msg = [p \in Procs |-> FALSE]
  /\ signal = [p \in Procs |-> "None"]
  /\ raised = [p \in Procs |-> "None"]
  /\ result = [p \in Procs |-> "None"]
  /\ warned = [p \in Procs |-> FALSE]
  /\ role_state = [p \in Procs |-> "default"]
  /\ log = [p \in Procs |-> <<>>]

(* How often step ev happened in test case p's current call.               *)
Count(p, ev) == Cardinality({i \in DOMAIN log[p] : log[p][i] = ev})

Happened(p, ev) == \E i \in DOMAIN log[p] : log[p][i] = ev

(* Invoke without the AttributeError handler's raise: a call without       *)
(* credentials goes on to the verdict.                                     *)
Invoke_NoCredentialCheck(p, ao, code, extra, cred) ==
  /\ pc[p] \in {"idle", "done"}
  /\ calls[p] < MaxCalls
  /\ calls' = [calls EXCEPT ![p] = @ + 1]
  /\ admin_only' = [admin_only EXCEPT ![p] = ao]
  /\ expected_error_code' = [expected_error_code EXCEPT ![p] = code]
  /\ extra_target_data' = [extra_target_data EXCEPT ![p] = extra]
  /\ has_credentials' = [has_credentials EXCEPT ![p] = cred]
  /\ formatted_target_data' = [formatted_target_data EXCEPT ![p] = NotFormatted]
  /\ permission' = [permission EXCEPT ![p] = "None"]
  /\ allowed' = [allowed EXCEPT ![p] = FALSE]
  /\ expected_exception' = [expected_exception EXCEPT ![p] = "None"]
  /\ irregular_msg' = [irregular_msg EXCEPT ![p] = FALSE]
  /\ signal' = [signal EXCEPT ![p] = "None"]
  /\ result' = [result EXCEPT ![p] = "None"]
  /\ warned' = [warned EXCEPT ![p] = FALSE]
  /\ log' = [log EXCEPT ![p] = <<"credentials">>]
  /\ raised' = [raised EXCEPT ![p] = "None"]
  /\ pc' = [pc EXCEPT ![p] = "verdict"]
  /\ UNCHANGED <<rbac_test_role, role_state>>

(* The wrapper is called, for the first time or after an earlier call has  *)
(* returned or raised: lines 65-76, credential resolution.                 *)
Invoke(p, ao, code, extra, cred) ==
  /\ pc[p] \in {"idle", "done"}
  /\ calls[p] < MaxCalls
  /\ calls' = [calls EXCEPT ![p] = @ + 1]
  /\ admin_only' = [admin_only EXCEPT ![p] = ao]
  /\ expected_error_code' = [expected_error_code EXCEPT ![p] = code]
  /\ extra_target_data' = [extra_target_data EXCEPT ![p] = extra]
  /\ has_credentials' = [has_credentials EXCEPT ![p] = cred]
  /\ formatted_target_data' = [formatted_target_data EXCEPT ![p] = NotFormatted]
  /\ permission' = [permission EXCEPT ![p] = "None"]
  /\ allowed' = [allowed EXCEPT ![p] = FALSE]
  /\ expected_exception' = [expected_exception EXCEPT ![p] = "None"]
  /\ irregular_msg' = [irregular_msg EXCEPT ![p] = FALSE]
  /\ signal' = [signal EXCEPT ![p] = "None"]
  /\ result' = [result EXCEPT ![p] = "None"]
  /\ warned' = [warned EXCEPT ![p] = FALSE]
  /\ log' = [log EXCEPT ![p] = <<"credentials">>]
  /\ IF cred
     THEN /\ raised' = [raised EXCEPT ![p] = "None"]
          /\ pc' = [pc EXCEPT ![p] = "verdict"]
     ELSE /\ raised' = [raised EXCEPT ![p] = "RbacResourceSetupFailed"]
          /\ pc' = [pc EXCEPT ![p] = "done"]
  /\ UNCHANGED <<rbac_test_role, role_state>>

(* AdminOnlyCheck without the role comparison: admin_only taken to mean    *)
(* that the call is made as admin.                                         *)
AdminOnlyCheck_RoleIgnored(p) ==
  /\ pc[p] = "verdict"
  /\ admin_only[p]
  /\ allowed' = [allowed EXCEPT ![p] = TRUE]
  /\ log' = [log EXCEPT ![p] = Append(@, "admin_only")]
  /\ pc' = [pc EXCEPT ![p] = "classify"]
  /\ UNCHANGED <<rbac_test_role, permission, calls, admin_only,
                 expected_error_code, extra_target_data, has_credentials,
                 formatted_target_data, expected_exception, irregular_msg,
                 signal, raised, result, warned, role_state>>

(* Lines 78-82: admin_only, the verdict is the role comparison.            *)
AdminOnlyCheck(p) ==
  /\ pc[p] = "verdict"
  /\ admin_only[p]
  /\ allowed' = [allowed EXCEPT ![p] = (rbac_test_role = "admin")]
  /\ log' = [log EXCEPT ![p] = Append(@, "admin_only")]
  /\ pc' = [pc EXCEPT ![p] = "classify"]
  /\ UNCHANGED <<rbac_test_role, permission, calls, admin_only, expected_error_code,
                 extra_target_data, has_credentials, formatted_target_data,
                 expected_exception, irregular_msg, signal, raised, result,
                 warned, role_state>>

(* Lines 84-86: the authority is built, which formats extra_target_data;   *)
(* an AttributeError of getattr propagates to the wrapper's caller.        *)
FormatTargetData(p) ==
  /\ pc[p] = "verdict"
  /\ ~admin_only[p]
  /\ \E items \in ItemOrders(extra_target_data[p]) :
       LET f == _format_extra_target_data("test_obj", extra_target_data[p], items)
       IN  /\ formatted_target_data' = [formatted_target_data EXCEPT ![p] = f]
           /\ IF f.ok
              THEN /\ pc' = [pc EXCEPT ![p] = "authority"]
                   /\ raised' = raised
              ELSE /\ pc' = [pc EXCEPT ![p] = "done"]
                   /\ raised' = [raised EXCEPT ![p] = "AttributeError"]
  /\ log' = [log EXCEPT ![p] = Append(@, "format")]
  /\ UNCHANGED <<rbac_test_role, permission, calls, admin_only, expected_error_code,
                 extra_target_data, has_credentials, allowed,
                 expected_exception, irregular_msg, signal, result, warned,
                 role_state>>

(* Lines 87-88: authority.get_permission answers.                          *)
GetPermission(p, answer) ==
  /\ pc[p] = "authority"
  /\ permission' = [permission EXCEPT ![p] = IF answer THEN "True" ELSE "False"]
  /\ allowed' = [allowed EXCEPT ![p] = answer]
  /\ log' = [log EXCEPT ![p] = Append(@, "get_permission")]
  /\ pc' = [pc EXCEPT ![p] = "classify"]
  /\ UNCHANGED <<rbac_test_role, calls, admin_only, expected_error_code,
                 extra_target_data, has_credentials, formatted_target_data,
                 expected_exception, irregular_msg, signal, raised, result,
                 warned, role_state>>

(* ClassifyErrorCode placed inside the try statement, its error caught by  *)
(* `except Exception` and reported like an error of func.                  *)
ClassifyErrorCode_CaughtByExcept(p) ==
  /\ pc[p] = "classify"
  /\ LET t == _get_exception_type(expected_error_code[p])
     IN  IF t.raises
         THEN /\ raised' = [raised EXCEPT ![p] = "RbacInvalidErrorCode"]
              /\ result' = [result EXCEPT ![p] = "UnexpectedError"]
              /\ pc' = [pc EXCEPT ![p] = "finally"]
              /\ UNCHANGED <<expected_exception, irregular_msg>>
         ELSE /\ expected_exception' =
                   [expected_exception EXCEPT ![p] = t.expected_exception]
              /\ irregular_msg' = [irregular_msg EXCEPT ![p] = t.irregular_msg]
              /\ pc' = [pc EXCEPT ![p] = "try"]
              /\ UNCHANGED <<raised, result>>
  /\ log' = [log EXCEPT ![p] = Append(@, "get_exception_type")]
  /\ UNCHANGED <<rbac_test_role, permission, calls, admin_only,
                 expected_error_code, extra_target_data, has_credentials,
                 formatted_target_data, allowed, signal, warned, role_state>>

(* ClassifyErrorCode placed inside the try statement: its error runs the   *)
(* finally clause.                                                         *)
ClassifyErrorCode_InsideTry(p) ==
  /\ pc[p] = "classify"
  /\ LET t == _get_exception_type(expected_error_code[p])
     IN  IF t.raises
         THEN /\ raised' = [raised EXCEPT ![p] = "RbacInvalidErrorCode"]
              /\ pc' = [pc EXCEPT ![p] = "finally"]
              /\ UNCHANGED <<expected_exception, irregular_msg>>
         ELSE /\ expected_exception' =
                   [expected_exception EXCEPT ![p] = t.expected_exception]
              /\ irregular_msg' = [irregular_msg EXCEPT ![p] = t.irregular_msg]
              /\ pc' = [pc EXCEPT ![p] = "try"]
              /\ raised' = raised
  /\ log' = [log EXCEPT ![p] = Append(@, "get_exception_type")]
  /\ UNCHANGED <<rbac_test_role, permission, calls, admin_only,
                 expected_error_code, extra_target_data, has_credentials,
                 formatted_target_data, allowed, signal, result, warned,
                 role_state>>

(* Lines 90-91: the expected error code is classified.                     *)
ClassifyErrorCode(p) ==
  /\ pc[p] = "classify"
  /\ LET t == _get_exception_type(expected_error_code[p])
     IN  IF t.raises
         THEN /\ raised' = [raised EXCEPT ![p] = "RbacInvalidErrorCode"]
              /\ pc' = [pc EXCEPT ![p] = "done"]
              /\ UNCHANGED <<expected_exception, irregular_msg>>
         ELSE /\ expected_exception' =
                   [expected_exception EXCEPT ![p] = t.expected_exception]
              /\ irregular_msg' = [irregular_msg EXCEPT ![p] = t.irregular_msg]
              /\ pc' = [pc EXCEPT ![p] = "try"]
              /\ raised' = raised
  /\ log' = [log EXCEPT ![p] = Append(@, "get_exception_type")]
  /\ UNCHANGED <<rbac_test_role, permission, calls, admin_only, expected_error_code,
                 extra_target_data, has_credentials, formatted_target_data,
                 allowed, signal, result, warned, role_state>>

(* Lines 93-94: func is called.                                            *)
CallFunc(p) ==
  /\ pc[p] = "try"
  /\ log' = [log EXCEPT ![p] = Append(@, "func")]
  /\ pc' = [pc EXCEPT ![p] = "func"]
  /\ UNCHANGED <<rbac_test_role, permission, calls, admin_only, expected_error_code,
                 extra_target_data, has_credentials, formatted_target_data,
                 allowed, expected_exception, irregular_msg, signal, raised,
                 result, warned, role_state>>

(* FuncEnds with a retry: after an error of func the wrapper calls func    *)
(* again.                                                                  *)
FuncEnds_Retry(p, sig, role) ==
  /\ pc[p] = "func"
  /\ signal' = [signal EXCEPT ![p] = sig]
  /\ role_state' = [role_state EXCEPT ![p] = role]
  /\ log' = [log EXCEPT ![p] = Append(@, "func_end")]
  /\ pc' = [pc EXCEPT ![p] = IF sig # "Success" /\ Count(p, "func") < 2
                             THEN "try" ELSE "except"]
  /\ UNCHANGED <<rbac_test_role, permission, calls, admin_only,
                 expected_error_code, extra_target_data, has_credentials,
                 formatted_target_data, allowed, expected_exception,
                 irregular_msg, raised, result, warned>>

(* Line 94: func returns or raises; the test body may have switched the    *)
(* test case to the role under test.                                       *)
FuncEnds(p, sig, role) ==
  /\ pc[p] = "func"
  /\ signal' = [signal EXCEPT ![p] = sig]
  /\ role_state' = [role_state EXCEPT ![p] = role]
  /\ log' = [log EXCEPT ![p] = Append(@, "func_end")]
  /\ pc' = [pc EXCEPT ![p] = "except"]
  /\ UNCHANGED <<rbac_test_role, permission, calls, admin_only, expected_error_code,
                 extra_target_data, has_credentials, formatted_target_data,
                 allowed, expected_exception, irregular_msg, raised, result,
                 warned>>

(* HandleOutcome with the role switched back after the try statement       *)
(* instead of in a finally clause: a clause that raises skips it.          *)
HandleOutcome_NoFinally(p) ==
  /\ pc[p] = "except"
  /\ LET r == Reconcile(signal[p], expected_exception[p], irregular_msg[p],
                        allowed[p])
     IN  /\ raised' = [raised EXCEPT ![p] = r.raised]
         /\ result' = [result EXCEPT ![p] = r.result]
         /\ warned' = [warned EXCEPT ![p] = r.warned]
         /\ pc' = [pc EXCEPT ![p] = IF r.raised = "None" THEN "finally"
                                    ELSE "done"]
  /\ log' = [log EXCEPT ![p] = Append(@, "except")]
  /\ UNCHANGED <<rbac_test_role, permission, calls, admin_only,
                 expected_error_code, extra_target_data, has_credentials,
                 formatted_target_data, allowed, expected_exception,
                 irregular_msg, signal, role_state>>

(* Lines 95-125: the except and else clauses.                              *)
HandleOutcome(p) ==
  /\ pc[p] = "except"
  /\ LET r == Reconcile(signal[p], expected_exception[p], irregular_msg[p],
                        allowed[p])
     IN  /\ raised' = [raised EXCEPT ![p] = r.raised]
         /\ result' = [result EXCEPT ![p] = r.result]
         /\ warned' = [warned EXCEPT ![p] = r.warned]
  /\ log' = [log EXCEPT ![p] = Append(@, "except")]
  /\ pc' = [pc EXCEPT ![p] = "finally"]
  /\ UNCHANGED <<rbac_test_role, permission, calls, admin_only, expected_error_code,
                 extra_target_data, has_credentials, formatted_target_data,
                 allowed, expected_exception, irregular_msg, signal,
                 role_state>>

(* SwitchRole acting on a role shared by all test cases instead of on the  *)
(* caller's own.                                                           *)
SwitchRole_EveryTestCase(p) ==
  /\ pc[p] = "finally"
  /\ role_state' = [q \in Procs |-> "default"]
  /\ log' = [log EXCEPT ![p] = Append(@, "switch_role")]
  /\ pc' = [pc EXCEPT ![p] = "done"]
  /\ UNCHANGED <<rbac_test_role, permission, calls, admin_only,
                 expected_error_code, extra_target_data, has_credentials,
                 formatted_target_data, allowed, expected_exception,
                 irregular_msg, signal, raised, result, warned>>

(* Lines 126-128: the finally clause switches the caller's role back.      *)
SwitchRole(p) ==
  /\ pc[p] = "finally"
  /\ role_state' = [role_state EXCEPT ![p] = "default"]
  /\ log' = [log EXCEPT ![p] = Append(@, "switch_role")]
  /\ pc' = [pc EXCEPT ![p] = "done"]
  /\ UNCHANGED <<rbac_test_role, permission, calls, admin_only, expected_error_code,
                 extra_target_data, has_credentials, formatted_target_data,
                 allowed, expected_exception, irregular_msg, signal, raised,
                 result, warned>>

Step(p) ==
  \/ \E ao \in BOOLEAN, code \in ErrorCodes,
        extra \in ExtraTargetDataChoices, cred \in BOOLEAN :
       Invoke(p, ao, code, extra, cred)
  \/ AdminOnlyCheck(p)
  \/ FormatTargetData(p)
  \/ \E answer \in BOOLEAN : GetPermission(p, answer)
  \/ ClassifyErrorCode(p)
  \/ CallFunc(p)
  \/ \E sig \in Signals, role \in {"default", "rbac"} : FuncEnds(p, sig, role)
  \/ HandleOutcome(p)
  \/ SwitchRole(p)

Next == Step(1)

Spec == Init /\ [][Next]_vars

(* Two test cases, each with its own caller_ref, whose wrapper calls are   *)
(* interleaved step by step.  The decorators are written with an empty     *)
(* extra_target_data and a supported expected_error_code, the credentials  *)
(* resolve, and func returns or raises one of the errors the except        *)
(* clauses name.                                                           *)
ConcSignals == {"Success", "Forbidden", "NotFound", "RbacActionFailed",
                "RbacInvalidService"}

StepConc(p) ==
  \/ \E ao \in BOOLEAN, code \in supported_error_codes :
       Invoke(p, ao, code, EmptyDict, TRUE)
  \/ AdminOnlyCheck(p)
  \/ FormatTargetData(p)
  \/ \E answer \in BOOLEAN : GetPermission(p, answer)
  \/ ClassifyErrorCode(p)
  \/ CallFunc(p)
  \/ \E sig \in ConcSignals, role \in {"default", "rbac"} :
       FuncEnds(p, sig, role)
  \/ HandleOutcome(p)
  \/ SwitchRole(p)

NextConc == \E p \in Procs : StepConc(p)

SpecConc == Init /\ [][NextConc]_vars

(* ---------------------------------------------------------------------- *)
(* Properties                                                              *)
(* ---------------------------------------------------------------------- *)

(* Step a happened, and step b happened after it.                          *)
Before(p, a, b) ==
  \E i, j \in DOMAIN log[p] : i < j /\ log[p][i] = a /\ log[p][j] = b

(* The wrapper has returned or raised.                                     *)
Terminated(p) == pc[p] = "done"

(* The error kind an expected_error_code stands for.                       *)
IsExpectedKind(p, sig) ==
  \/ expected_error_code[p] = 403 /\ sig = "Forbidden"
  \/ expected_error_code[p] = 404 /\ sig = "NotFound"

ConfigurationErrors ==
  {"RbacResourceSetupFailed", "AttributeError", "RbacInvalidErrorCode"}

C2_RestoredOnceAfterFunc ==
  \A p \in Procs :
    Happened(p, "func") =>
      /\ Count(p, "func") = 1
      /\ pc[p] \in {"func", "except", "finally", "done"}
      /\ pc[p] \in {"func", "except", "finally"} => Count(p, "switch_role") = 0
      /\ Terminated(p) =>
           /\ Count(p, "switch_role") = 1
           /\ Before(p, "func_end", "switch_role")
           /\ log[p][Len(log[p])] = "switch_role"
           /\ role_state[p] = "default"

C2_Witness ==
  \E p \in Procs :
    /\ Terminated(p)
    /\ signal[p] = "BaseException"
    /\ raised[p] = "BaseException"
    /\ Count(p, "switch_role") = 1

(* C3: with the verdict allowed and a supported expected_error_code, a     *)
(* func that returns gives Pass (the wrapper returns) and a func that      *)
(* raises the expected error kind gives ForbiddenButShouldBeAllowed (the   *)
(* wrapper raises Forbidden).                                              *)
C3_AllowedVerdict ==
  \A p \in Procs :
    Terminated(p) /\ allowed[p]
      /\ expected_error_code[p] \in supported_error_codes =>
        /\ signal[p] = "Success" =>
             result[p] = "Pass" /\ raised[p] = "None"
        /\ IsExpectedKind(p, signal[p]) =>
             result[p] = "ForbiddenButShouldBeAllowed" /\ raised[p] = "Forbidden"

C3_Witness ==
  \E p \in Procs :
    /\ Terminated(p) /\ allowed[p] /\ admin_only[p]
    /\ expected_error_code[p] = 404 /\ signal[p] = "NotFound"
    /\ result[p] = "ForbiddenButShouldBeAllowed"

(* C4: with the verdict not allowed and a supported expected_error_code, a *)
(* func that returns gives OverPermissionButShouldBeForbidden (the wrapper *)
(* raises RbacOverPermission) and a func that raises the expected error    *)
(* kind gives Pass.                                                        *)
C4_NotAllowedVerdict ==
  \A p \in Procs :
    Terminated(p) /\ ~allowed[p]
      /\ expected_error_code[p] \in supported_error_codes =>
        /\ signal[p] = "Success" =>
             /\ result[p] = "OverPermissionButShouldBeForbidden"
             /\ raised[p] = "RbacOverPermission"
        /\ IsExpectedKind(p, signal[p]) =>
             result[p] = "Pass" /\ raised[p] = "None"

C4_Witness ==
  \E p \in Procs :
    /\ Terminated(p) /\ ~allowed[p] /\ permission[p] = "False"
    /\ signal[p] = "Success"
    /\ result[p] = "OverPermissionButShouldBeForbidden"

(* C5: an error of func that is neither RbacInvalidService, nor the        *)
(* expected error kind, nor RbacActionFailed gives UnexpectedError under   *)
(* either verdict and either supported code: the wrapper raises it, so it  *)
(* is never a Pass nor a policy mismatch.                                  *)
C5_UnrecognizedIsUnexpected ==
  \A p \in Procs :
    Terminated(p)
      /\ signal[p] \in {"Forbidden", "NotFound", "OtherException",
                        "BaseException"}
      /\ ~IsExpectedKind(p, signal[p]) =>
        /\ result[p] = "UnexpectedError"
        /\ raised[p] = signal[p]

C5_Witness ==
  \E p \in Procs :
    /\ Terminated(p) /\ ~allowed[p]
    /\ signal[p] = "OtherException"
    /\ result[p] = "UnexpectedError"

(* C6: RbacInvalidService from func gives InvalidService (the wrapper      *)
(* raises NotFound) whatever the verdict, admin_only and the expected      *)
(* error code are; no later except clause gets to handle it.               *)
C6_InvalidServiceFirst ==
  \A p \in Procs :
    Terminated(p) /\ signal[p] = "RbacInvalidService" =>
      /\ result[p] = "InvalidService"
      /\ raised[p] = "NotFound"
      /\ ~warned[p]

C6_Witness ==
  \E p \in Procs :
    /\ Terminated(p) /\ signal[p] = "RbacInvalidService"
    /\ admin_only[p] /\ ~allowed[p] /\ expected_error_code[p] = 404
    /\ result[p] = "InvalidService"

(* Traversing an entry's attribute string from the test object itself      *)
(* reaches no value.                                                       *)
Unresolvable(attr_string) ==
  GetAttrs("test_obj", Split(attr_string)) = "AttributeError"

(* The verdict of the current call has been computed.                      *)
VerdictComputed(p) ==
  Happened(p, "admin_only") \/ Happened(p, "get_permission")

(* C7: the dictionary _format_extra_target_data returns has, for every     *)
(* key of extra_target_data, the value reached by traversing that key's    *)
(* attribute string segment by segment from the test object itself,        *)
(* whatever the other entries and the iteration order are.                 *)
C7_EachEntryFromTestObject ==
  \A p \in Procs :
    Happened(p, "format") /\ formatted_target_data[p].ok =>
      /\ DOMAIN formatted_target_data[p].data = DOMAIN extra_target_data[p]
      /\ \A k \in DOMAIN extra_target_data[p] :
           formatted_target_data[p].data[k] =
             GetAttrs("test_obj", Split(extra_target_data[p][k]))

(* C8, for the calls with admin_only false and a supported                 *)
(* expected_error_code: a call whose extra_target_data has an attribute    *)
(* string with a segment missing from the test object ends with            *)
(* AttributeError raised to the caller, func not called and no result.     *)
C8_MissingSegmentIsFatal ==
  \A p \in Procs :
    Terminated(p) /\ has_credentials[p] /\ ~admin_only[p]
      /\ expected_error_code[p] \in supported_error_codes
      /\ (\E k \in DOMAIN extra_target_data[p] :
            Unresolvable(extra_target_data[p][k])) =>
        /\ raised[p] = "AttributeError"
        /\ ~Happened(p, "func")
        /\ result[p] = "None"

(* C9: a call with admin_only never builds nor queries the authority and   *)
(* its verdict is rbac_test_role = "admin"; a call without admin_only      *)
(* queries the authority once and its verdict is the boolean               *)
(* get_permission returned, from then on to the end of the call.           *)
C9_VerdictSource ==
  \A p \in Procs :
    /\ admin_only[p] =>
         /\ ~Happened(p, "format")
         /\ ~Happened(p, "get_permission")
         /\ permission[p] = "None"
         /\ VerdictComputed(p) => (allowed[p] <=> rbac_test_role = "admin")
    /\ ~admin_only[p] /\ VerdictComputed(p) =>
         /\ Count(p, "get_permission") = 1
         /\ permission[p] \in {"True", "False"}
         /\ allowed[p] <=> permission[p] = "True"

C9_Witness ==
  \E p \in Procs :
    /\ Terminated(p) /\ admin_only[p]
    /\ rbac_test_role = "member" /\ ~allowed[p]
    /\ signal[p] = "Success"
    /\ result[p] = "OverPermissionButShouldBeForbidden"

(* C10: in a call with an expected_error_code other than 403 and 404 func  *)
(* is never called and no result is produced; the call ends with an error  *)
(* raised, and once the verdict has been computed that error is            *)
(* RbacInvalidErrorCode, raised by the classification step that follows    *)
(* the verdict.  RbacInvalidErrorCode is raised in no other call.          *)
C10_InvalidErrorCodeAborts ==
  \A p \in Procs :
    /\ calls[p] > 0 /\ expected_error_code[p] \notin supported_error_codes =>
         /\ ~Happened(p, "func")
         /\ signal[p] = "None"
         /\ result[p] = "None"
         /\ Terminated(p) => raised[p] \in ConfigurationErrors
         /\ Terminated(p) /\ VerdictComputed(p) =>
              /\ raised[p] = "RbacInvalidErrorCode"
              /\ log[p][Len(log[p])] = "get_exception_type"
    /\ raised[p] = "RbacInvalidErrorCode" =>
         /\ expected_error_code[p] \notin supported_error_codes
         /\ VerdictComputed(p)
         /\ \/ Before(p, "admin_only", "get_exception_type")
            \/ Before(p, "get_permission", "get_exception_type")

C10_Witness ==
  \E p \in Procs :
    /\ Terminated(p) /\ expected_error_code[p] = 500
    /\ Happened(p, "get_permission")
    /\ raised[p] = "RbacInvalidErrorCode"
    /\ ~Happened(p, "func")

(* C11: once the expected_error_code of a call has been classified, 403    *)
(* has given Forbidden and no irregular notice, 404 has given NotFound and *)
(* an irregular notice, and any other code has given RbacInvalidErrorCode  *)
(* raised to the caller and neither an exception kind nor a notice.        *)
C11_ClassifyIsClosed ==
  \A p \in Procs :
    Happened(p, "get_exception_type") =>
      /\ expected_error_code[p] = 403 =>
           /\ expected_exception[p] = "Forbidden"
           /\ ~irregular_msg[p]
           /\ raised[p] # "RbacInvalidErrorCode"
      /\ expected_error_code[p] = 404 =>
           /\ expected_exception[p] = "NotFound"
           /\ irregular_msg[p]
           /\ raised[p] # "RbacInvalidErrorCode"
      /\ expected_error_code[p] \notin {403, 404} =>
           /\ raised[p] = "RbacInvalidErrorCode"
           /\ expected_exception[p] = "None"
           /\ ~irregular_msg[p]

C11_Witness ==
  \E p \in Procs :
    /\ Happened(p, "get_exception_type")
    /\ expected_error_code[p] = 404
    /\ expected_exception[p] = "NotFound" /\ irregular_msg[p]
    /\ pc[p] = "try"

ValidationResults ==
  {"Pass", "ForbiddenButShouldBeAllowed", "OverPermissionButShouldBeForbidden",
   "UnexpectedError", "InvalidService"}

(* C13: a call that has ended has exactly one outcome: either one of the   *)
(* five results, and then func has run to its end, or one configuration    *)
(* error raised before func, and then no result; never both and never      *)
(* neither.  While a call is under way it has no result before func has    *)
(* ended.                                                                  *)
C13_ExactlyOneOutcome ==
  \A p \in Procs :
    /\ result[p] \in ValidationResults \cup {"None"}
    /\ result[p] # "None" => Happened(p, "func_end") /\ Count(p, "except") = 1
    /\ Terminated(p) =>
         /\ (result[p] # "None") # (raised[p] \in ConfigurationErrors)
         /\ raised[p] \in ConfigurationErrors => ~Happened(p, "func")
         /\ result[p] = "Pass" => raised[p] = "None"

C13_Witness ==
  \E p \in Procs :
    /\ Terminated(p)
    /\ result[p] = "UnexpectedError"
    /\ raised[p] = "OtherException"
    /\ Happened(p, "func_end")

(* C14, as claimed: of two calls that ended with one of the four failure   *)
(* results and raised the same kind of error, both have the same result.   *)
C14_RaisedKindDeterminesResult ==
  \A p, q \in Procs :
    /\ Terminated(p) /\ Terminated(q)
    /\ result[p] \in ValidationResults \ {"Pass"}
    /\ result[q] \in ValidationResults \ {"Pass"}
    /\ raised[p] = raised[q]
    => result[p] = result[q]

(* C14, amended: ForbiddenButShouldBeAllowed is raised as Forbidden,       *)
(* OverPermissionButShouldBeForbidden as RbacOverPermission and            *)
(* InvalidService as NotFound, so of two calls that ended with one of      *)
(* these three results and raised the same kind, both have the same        *)
(* result; UnexpectedError is raised as the kind of func's own error,      *)
(* whatever that kind is.                                                  *)
C14_MismatchKindsDistinct ==
  \A p, q \in Procs :
    /\ Terminated(p) /\ result[p] = "ForbiddenButShouldBeAllowed" =>
         raised[p] = "Forbidden"
    /\ Terminated(p) /\ result[p] = "OverPermissionButShouldBeForbidden" =>
         raised[p] = "RbacOverPermission"
    /\ Terminated(p) /\ result[p] = "InvalidService" => raised[p] = "NotFound"
    /\ Terminated(p) /\ result[p] = "UnexpectedError" => raised[p] = signal[p]
    /\ ( /\ Terminated(p) /\ Terminated(q)
         /\ result[p] \in {"ForbiddenButShouldBeAllowed",
                           "OverPermissionButShouldBeForbidden",
                           "InvalidService"}
         /\ result[q] \in {"ForbiddenButShouldBeAllowed",
                           "OverPermissionButShouldBeForbidden",
                           "InvalidService"}
         /\ raised[p] = raised[q] )
       => result[p] = result[q]

C14_Witness ==
  \E p, q \in Procs :
    /\ Terminated(p) /\ Terminated(q)
    /\ result[p] = "ForbiddenButShouldBeAllowed"
    /\ result[q] = "UnexpectedError"
    /\ raised[p] = "Forbidden" /\ raised[q] = "Forbidden"

(* Everything the wrapper call of test case p reads or writes of its own.  *)
Local(p) ==
  <<pc[p], calls[p], admin_only[p], expected_error_code[p],
    extra_target_data[p], has_credentials[p], formatted_target_data[p],
    permission[p], allowed[p], expected_exception[p], irregular_msg[p],
    signal[p], raised[p], result[p], warned[p], role_state[p], log[p]>>

(* What a call with test case p's arguments, authority answer and func     *)
(* outcome raises, reports and warns when nothing else runs.               *)
OutcomeAlone(p) ==
  Reconcile(signal[p],
            _get_exception_type(expected_error_code[p]).expected_exception,
            _get_exception_type(expected_error_code[p]).irregular_msg,
            IF admin_only[p] THEN rbac_test_role = "admin"
            ELSE permission[p] = "True")

(* C15: with the wrapper calls of two test cases interleaved in any order, *)
(* a call that has ended has the outcome its own arguments, authority      *)
(* answer and func outcome give when it runs alone, and its role is the    *)
(* default; and every step of one test case's call, the switch back of the *)
(* role included, leaves everything of the other test case, its role       *)
(* included, as it was, and leaves rbac_test_role as it was.               *)
C15_InterleavedCallsIndependent ==
  /\ [](\A p \in Procs :
          Terminated(p) /\ Happened(p, "func_end") =>
            /\ raised[p] = OutcomeAlone(p).raised
            /\ result[p] = OutcomeAlone(p).result
            /\ warned[p] = OutcomeAlone(p).warned
            /\ role_state[p] = "default")
  /\ [][ /\ rbac_test_role' = rbac_test_role
         /\ \A p, q \in Procs :
              p # q /\ Local(p)' # Local(p) => Local(q)' = Local(q) ]_vars

C15_Witness ==
  \E p, q \in Procs :
    /\ p # q
    /\ pc[p] = "finally" /\ role_state[p] = "rbac"
    /\ Terminated(q) /\ Happened(q, "switch_role")
    /\ role_state[q] = "default"
    /\ result[q] # "None"

(* C16: a call whose func raised RbacActionFailed ends with Pass when the  *)
(* verdict is not allowed and with ForbiddenButShouldBeAllowed when it is  *)
(* allowed, under 403 and under 404; and of two calls with the same        *)
(* verdict and the same expected_error_code, one whose func raised         *)
(* RbacActionFailed and one whose func raised the expected error kind,     *)
(* both have the same result and raise the same.                           *)
C16_ActionFailedLikeExpected ==
  \A p, q \in Procs :
    /\ Terminated(p) /\ signal[p] = "RbacActionFailed" =>
         result[p] = IF allowed[p] THEN "ForbiddenButShouldBeAllowed"
                     ELSE "Pass"
    /\ ( /\ Terminated(p) /\ Terminated(q)
         /\ signal[p] = "RbacActionFailed"
         /\ IsExpectedKind(q, signal[q])
         /\ allowed[p] = allowed[q]
         /\ expected_error_code[p] = expected_error_code[q] )
       => /\ result[p] = result[q]
          /\ raised[p] = raised[q]

C16_Witness ==
  \E p, q \in Procs :
    /\ Terminated(p) /\ Terminated(q)
    /\ signal[p] = "RbacActionFailed" /\ signal[q] = "NotFound"
    /\ expected_error_code[p] = 404 /\ expected_error_code[q] = 404
    /\ ~allowed[p] /\ ~allowed[q]
    /\ result[p] = "Pass" /\ result[q] = "Pass"

(* C17: a call that has ended returned normally exactly when its result   *)
(* is Pass, which is exactly when func returned and the verdict is allowed *)
(* or func raised the expected error kind or RbacActionFailed and the      *)
(* verdict is not allowed; every other ended call raised an error.         *)
C17_ReturnsIffPass ==
  \A p \in Procs :
    Terminated(p) =>
      /\ raised[p] = "None" <=> result[p] = "Pass"
      /\ result[p] = "Pass" <=>
           /\ Happened(p, "func_end")
           /\ \/ signal[p] = "Success" /\ allowed[p]
              \/ /\ IsExpectedKind(p, signal[p]) \/ signal[p] = "RbacActionFailed"
                 /\ ~allowed[p]

C17_Witness ==
  \E p \in Procs :
    /\ Terminated(p)
    /\ signal[p] = "RbacActionFailed" /\ ~allowed[p]
    /\ raised[p] = "None" /\ result[p] = "Pass"

(* C18: with expected_error_code 404 a Forbidden of func, and with 403 a   *)
(* NotFound of func, gives UnexpectedError and is raised to the caller     *)
(* under either verdict; it is not Pass when the verdict is not allowed.   *)
C18_OtherDenialKindIsUnexpected ==
  \A p \in Procs :
    ( /\ Terminated(p)
      /\ \/ expected_error_code[p] = 404 /\ signal[p] = "Forbidden"
         \/ expected_error_code[p] = 403 /\ signal[p] = "NotFound" )
    => /\ result[p] = "UnexpectedError"
       /\ raised[p] = signal[p]
       /\ ~warned[p]

C18_Witness ==
  \E p \in Procs :
    /\ Terminated(p) /\ ~allowed[p]
    /\ expected_error_code[p] = 403 /\ signal[p] = "NotFound"
    /\ result[p] = "UnexpectedError" /\ raised[p] = "NotFound"

(* C20: the irregular-code warning is logged in a call exactly when the    *)
(* expected_error_code is 404 and func raised NotFound or                  *)
(* RbacActionFailed, under either verdict, so also when the result is      *)
(* Pass; never under 403, nor when func returned, raised                   *)
(* RbacInvalidService or raised an unrecognized error, nor in a call that  *)
(* did not get to func.                                                    *)
C20_IrregularNotice ==
  \A p \in Procs :
    /\ warned[p] => Happened(p, "except")
    /\ Happened(p, "except") =>
         (warned[p] <=> /\ expected_error_code[p] = 404
                        /\ signal[p] \in {"NotFound", "RbacActionFailed"})

C20_Witness ==
  \E p \in Procs :
    /\ Terminated(p) /\ warned[p]
    /\ expected_error_code[p] = 404 /\ signal[p] = "NotFound"
    /\ ~allowed[p] /\ result[p] = "Pass"

(* C19, as claimed for the authority: a call without admin_only whose      *)
(* credentials resolved has queried the authority exactly once when it     *)
(* ends.                                                                   *)
C19_AuthorityQueriedOnceWithCredentials ==
  \A p \in Procs :
    Terminated(p) /\ ~admin_only[p] /\ has_credentials[p] =>
      Count(p, "get_permission") = 1

(* C19, amended: in one call every step happens at most once and in the    *)
(* order verdict, classification, func, reconciliation; the authority is   *)
(* queried exactly once when admin_only is false, the credentials resolve  *)
(* and extra_target_data is formatted without error, and not at all        *)
(* otherwise, and always before func is called; func is called at most     *)
(* once; and the verdict the reconciliation uses is the one computed       *)
(* before func was called.                                                 *)
C19_SinglePassInOrder ==
  \A p \in Procs :
    /\ \A ev \in {"admin_only", "format", "get_permission",
                  "get_exception_type", "func", "func_end", "except"} :
         Count(p, ev) <= 1
    /\ Terminated(p) /\ ~admin_only[p] /\ has_credentials[p]
         /\ formatted_target_data[p].ok => Count(p, "get_permission") = 1
    /\ ( \/ admin_only[p]
         \/ ~has_credentials[p]
         \/ Happened(p, "format") /\ ~formatted_target_data[p].ok )
       => Count(p, "get_permission") = 0
    /\ Happened(p, "get_exception_type") =>
         \/ Before(p, "admin_only", "get_exception_type")
         \/ Before(p, "get_permission", "get_exception_type")
    /\ Happened(p, "func") => Before(p, "get_exception_type", "func")
    /\ Happened(p, "func") /\ ~admin_only[p] =>
         Before(p, "get_permission", "func")
    /\ Happened(p, "func_end") => Before(p, "func", "func_end")
    /\ Happened(p, "except") =>
         /\ Before(p, "func_end", "except")
         /\ allowed[p] <=> IF admin_only[p] THEN rbac_test_role = "admin"
                           ELSE permission[p] = "True"
         /\ result[p] = OutcomeAlone(p).result

C19_Witness ==
  \E p \in Procs :
    /\ Terminated(p)
    /\ log[p] = <<"credentials", "format", "get_permission",
                  "get_exception_type", "func", "func_end", "except",
                  "switch_role">>
    /\ signal[p] = "Forbidden" /\ permission[p] = "False"
    /\ result[p] = "Pass"

====
